---- MODULE Spec2Model ----
(***************************************************************************)
(* Model of src/sensors.py: the HC-SR04 pulse-echo driver (HCSR04), the    *)
(* two-ADC analog reader (AnalogReader) and the telemetry loop (start).    *)
(*                                                                         *)
(* Platform semantics the code runs on (MicroPython on ESP32):             *)
(*  - machine.time_pulse_us returns -2 / -1 on a timeout on current        *)
(*    firmware and raised OSError(ETIMEDOUT) on old firmware; both         *)
(*    outcomes are kept, as a choice of the environment;                   *)
(*  - a dict iterates in hash-slot order, not in insertion order, so       *)
(*    dist_sensors.values() is some ordering of the configured rangers;    *)
(*  - response.json() raises ValueError on a body that is not JSON, and    *)
(*    None.json() raises AttributeError.                                   *)
(***************************************************************************)
EXTENDS Integers, Sequences, FiniteSets, TLC

VARIABLES
    \* ---- configuration, read once by start() (lines 140-167)
    bot_id,            \* node identifier
    dist_sensors,      \* configured rangers, in configuration order
    layout,            \* adcs[0][0] + adcs[1][0]: 8 role tags
    \* ---- telemetry loop, start()
    pc,                \* position of start()
    link,              \* wlan.isconnected()
    active,            \* wlan.active() flag
    wlanCalls,         \* calls made on wlan, in order
    distance_sensors,  \* list built at line 189
    data,              \* record built at lines 194-195
    dataSrc,           \* origin of each field of data (history variable)
    dataCycle,         \* loop iteration that built data (history variable)
    response,          \* reply of urequests.post, or "None"
    exc,               \* the latest exception raised in start()
    ctr,               \* number of completed posts
    cycles,            \* loop iterations begun (history variable)
    stopCause,         \* why start() ended (history variable)
    linkSeen,          \* isconnected() returned True since the last connect()
                       \* (history variable)
    quiet,             \* ms of pacing delay since the last post and since the
                       \* last reconnect of the loop (history variable)
    \* ---- one HCSR04 distance_mm() call, step by step
    rpc,               \* position inside distance_mm / _send_pulse_and_wait
    trigger,           \* level of the trigger pin
    echo,              \* outcome of machine.time_pulse_us in the latest call
    result,            \* what the latest completed distance_mm returned or raised
    rlog,              \* pin and timer operations of the latest call, in order
    \* ---- one AnalogReader under read_sensor_values() calls
    bpc,               \* position inside read_sensor_values
    bankOrder,         \* the order argument of the call
    adcIn,             \* what adc.read gave for the 8 channels in the call
    q_light,           \* the local list light
    q_voltage,         \* the local list voltage
    q_other,           \* the local list other
    out,               \* the local list data, returned at line 130
    calls              \* calls begun (history variable)

cfgVars   == <<bot_id, dist_sensors, layout>>
loopVars  == <<pc, link, active, wlanCalls, distance_sensors, data, dataSrc, dataCycle,
               response, exc, ctr, cycles, stopCause, linkSeen, quiet>>
rangerVars == <<rpc, trigger, echo, result, rlog>>
bankVars  == <<bpc, bankOrder, adcIn, q_light, q_voltage, q_other, out, calls>>
vars == <<bot_id, dist_sensors, layout, pc, link, active, wlanCalls,
          distance_sensors, data, dataSrc, dataCycle, response, exc, ctr, cycles,
          stopCause, linkSeen, quiet, rpc, trigger, echo, result, rlog,
          bpc, bankOrder, adcIn, q_light, q_voltage, q_other, out, calls>>

----------------------------------------------------------------------------
(* Bounds of the model *)

\* loop iterations explored
MaxCycles == 2
\* rangers a configuration may name
MaxRangers == 3
\* largest echo pulse width enumerated for a single distance_mm call
MaxPulse == 30

----------------------------------------------------------------------------
(* Program constants *)

\* errno of a timeout, line 50
ETIMEDOUT == 110
\* errnos other than ETIMEDOUT that a pin read can fail with (EIO)
OtherErrnos == {5}
\* rangers polled per cycle, the slice at line 194
RangerSlice == 2
\* echo_timeout_us, the default of line 20: 500*2*30
EchoTimeoutUs == 30000
\* the pacing delay of line 220, time.sleep(0.1), in ms
PacingMs == 100

Min(a, b) == IF a < b THEN a ELSE b

\* Python's // : floor division (TLA+ \div floors for a positive divisor)
FloorDiv(a, b) == a \div b
\* truncating division, rounding toward zero
TruncDiv(a, b) == IF a >= 0 THEN a \div b ELSE -((-a) \div b)

----------------------------------------------------------------------------
(* HCSR04 *)

\* what machine.time_pulse_us(self.echo, 1, self.echo_timeout_us) can do:
\* return the pulse width, return -2 / -1 (timeout, current firmware), or
\* raise OSError(errno) (ETIMEDOUT on old firmware, or another fault)
Returned(v) == [kind |-> "return", v |-> v, msg |-> ""]
Raised(errno) == [kind |-> "raise", v |-> errno, msg |-> "OSError"]
OutOfRange == [kind |-> "raise", v |-> 0, msg |-> "Out of range"]

time_pulse_us ==
    {Returned(us) : us \in 0..MaxPulse}
        \cup {Returned(-2), Returned(-1)}
        \cup {Raised(ETIMEDOUT)}
        \cup {Raised(e) : e \in OtherErrnos}

\* the echo measurement did not complete within the timeout
TimedOut(e) ==
    \/ e.kind = "return" /\ e.v < 0
    \/ e.kind = "raise" /\ e.v = ETIMEDOUT

\* lines 46-52: the try/except around time_pulse_us
send_pulse_and_wait(e) ==
    IF e.kind = "return" THEN e
    ELSE IF e.v = ETIMEDOUT THEN OutOfRange
    ELSE e

\* lines 58-66: mm = pulse_time * 100 // 582
distance_mm(e) ==
    LET pulse_time == send_pulse_and_wait(e)
    IN  IF pulse_time.kind = "return"
        THEN Returned(FloorDiv(pulse_time.v * 100, 582))
        ELSE pulse_time

----------------------------------------------------------------------------
(* AnalogReader.read_sensor_values *)

\* adc.read(4, channel): the raw register value, or OSError
Raw(r) == [ok |-> TRUE, raw |-> r]
Fault == [ok |-> FALSE, raw |-> 0]

buckets == <<0, 20, 40, 80, 160, 220>>

MaxOf(S) == CHOOSE m \in S : \A x \in S : x <= m

\* bucket with the comparison strict: raw > p
bucket_Strict(num, den) ==
    MaxOf({buckets[k] : k \in {j \in 1..6 : 5 * num > (j - 1) * den}} \cup {0})

\* bucket with the comparison turned round: raw <= p
bucket_Below(num, den) ==
    MaxOf({buckets[k] : k \in {j \in 1..6 : 5 * num <= (j - 1) * den}} \cup {0})

\* max([n for n, p in zip(buckets, [0.0, .2, .4, .6, .8, 1.0]) if raw >= p] + [0])
\* with raw = num / den and den > 0: raw >= (k-1)/5 iff 5*num >= (k-1)*den.
\* No quotient other than 0 and 1 lies within float rounding of a breakpoint
\* (neither 30483 nor 27067 is a multiple of 5), so the exact comparison is
\* the float comparison.
bucket(num, den) ==
    MaxOf({buckets[k] : k \in {j \in 1..6 : 5 * num >= (j - 1) * den}} \cup {0})

\* read_light_sensor with the offset and scale of the voltage role
read_light_sensor_VoltageScale(x) == IF ~x.ok THEN -1 ELSE bucket(x.raw - 5169, 27067)

\* lines 96-101
read_light_sensor(x) == IF ~x.ok THEN -1 ELSE bucket(x.raw - 335, 30483)
\* lines 103-108
read_voltage_sensor(x) == IF ~x.ok THEN -1 ELSE bucket(x.raw - 5169, 27067)
\* lines 110-112
read_other_sensor(x) == IF ~x.ok THEN -1 ELSE x.raw

\* role of a layout character, lines 115-117
Role(c) == IF c = "l" THEN "l" ELSE IF c = "v" THEN "v" ELSE "_"

\* Queue without the try of lines 97-112: the first fault ends the reading
RECURSIVE Queue_AbortOnFault(_, _, _, _)
Queue_AbortOnFault(lay, chan, role, i) ==
    IF i > Len(lay) \/ ~chan[i].ok THEN <<>>
    ELSE IF Role(lay[i]) # role THEN Queue_AbortOnFault(lay, chan, role, i + 1)
    ELSE LET x == IF role = "l" THEN bucket(chan[i].raw - 335, 30483)
                  ELSE IF role = "v" THEN bucket(chan[i].raw - 5169, 27067)
                  ELSE chan[i].raw
         IN  <<x>> \o Queue_AbortOnFault(lay, chan, role, i + 1)

\* Queue with insert(0, ...) for append(...)
RECURSIVE Queue_Reversed(_, _, _, _)
Queue_Reversed(lay, chan, role, i) ==
    IF i > Len(lay) THEN <<>>
    ELSE IF Role(lay[i]) # role THEN Queue_Reversed(lay, chan, role, i + 1)
    ELSE LET x == IF role = "l" THEN bucket(chan[i].raw - 335, 30483)
                  ELSE IF role = "v" THEN bucket(chan[i].raw - 5169, 27067)
                  ELSE chan[i].raw
         IN  Queue_Reversed(lay, chan, role, i + 1) \o <<IF chan[i].ok THEN x ELSE -1>>

\* lines 114-122: the readings of one role, channels 1..4 being adc_1
\* channels 0..3 and channels 5..8 being adc_2 channels 0..3
RECURSIVE Queue(_, _, _, _)
Queue(lay, chan, role, i) ==
    IF i > Len(lay) THEN <<>>
    ELSE IF Role(lay[i]) # role THEN Queue(lay, chan, role, i + 1)
    ELSE LET x == IF role = "l" THEN read_light_sensor(chan[i])
                  ELSE IF role = "v" THEN read_voltage_sensor(chan[i])
                  ELSE read_other_sensor(chan[i])
         IN  <<x>> \o Queue(lay, chan, role, i + 1)

\* PopOr0 giving the sentinel of a fault for an exhausted list
PopOr0_Sentinel(q) == IF q # <<>> THEN Head(q) ELSE -1

\* x.pop(0) if x else 0.0
PopOr0(q) == IF q # <<>> THEN Head(q) ELSE 0
Rest(q) == IF q # <<>> THEN Tail(q) ELSE q

\* lines 124-130
RECURSIVE Emit(_, _, _, _)
Emit(order, light, voltage, other) ==
    IF order = <<>> THEN <<>>
    ELSE LET o == Head(order)
         IN  IF o = "l"
             THEN <<PopOr0(light)>> \o Emit(Tail(order), Rest(light), voltage, other)
             ELSE IF o = "v"
             THEN <<PopOr0(voltage)>> \o Emit(Tail(order), light, Rest(voltage), other)
             ELSE <<PopOr0(other)>> \o Emit(Tail(order), light, voltage, Rest(other))

\* lines 90-130
read_sensor_values(lay, order, chan) ==
    Emit(order, Queue(lay, chan, "l", 1), Queue(lay, chan, "v", 1),
         Queue(lay, chan, "_", 1))

----------------------------------------------------------------------------
(* Inputs of the telemetry loop *)

BotIds == {7}

\* layouts a configuration may give; the second has a single voltage channel,
\* so the order "vvll_" exhausts the voltage queue
Layouts ==
    { <<"v", "v", "l", "l", "_", "_", "_", "_">>,
      <<"v", "_", "_", "l", "_", "_", "l", "_">> }

\* the output order of line 195, "vvll_"
LoopOrder == <<"v", "v", "l", "l", "_">>

\* what the 8 channels give in one cycle: no fault, two faults, all faults
ChanInputs ==
    { [i \in 1..8 |-> IF i \in F THEN Fault ELSE Raw(9580)] :
        F \in {{}, {1, 3}, 1..8} }

\* echo outcomes the loop is explored with
LoopEchoes ==
    {e \in time_pulse_us : e.kind = "raise" \/ e.v \in {-2, -1, MaxPulse}}

\* replies of the endpoint: body.endLoop true / false, a JSON body without
\* endLoop, a body that is not JSON
Replies == {"endLoop_true", "endLoop_false", "no_endLoop", "malformed"}

\* orderings of a sequence without repetition
Orderings(seq) ==
    LET n == Len(seq)
        perms == {p \in [1..n -> 1..n] : \A i, j \in 1..n : i # j => p[i] # p[j]}
    IN  {[i \in 1..n |-> seq[p[i]]] : p \in perms}

NoCall == [kind |-> "none", v |-> 0, msg |-> ""]

----------------------------------------------------------------------------
(* Initial states *)

\* lines 140-167: the configuration
InitConfig ==
    /\ bot_id \in BotIds
    /\ dist_sensors \in {[i \in 1..n |-> i] : n \in 0..MaxRangers}
    /\ layout \in Layouts

\* start() before line 174
InitLoop ==
    /\ pc = "start"
    /\ link = FALSE
    /\ active = FALSE
    /\ wlanCalls = <<>>
    /\ distance_sensors = <<>>
    /\ data = <<>>
    /\ dataSrc = <<>>
    /\ dataCycle = 0
    /\ response = "None"
    /\ exc = "none"
    /\ ctr = 0
    /\ cycles = 0
    /\ stopCause = "none"
    /\ linkSeen = FALSE
    /\ quiet = [post |-> PacingMs, connect |-> PacingMs]

\* HCSR04.__init__, lines 27-33: trigger driven low
InitRanger ==
    /\ rpc = "idle"
    /\ trigger = 0
    /\ echo = NoCall
    /\ result = NoCall
    /\ rlog = <<>>

\* AnalogReader.__init__, lines 84-88; no call made yet
InitBank ==
    /\ bpc = "idle"
    /\ bankOrder = <<>>
    /\ adcIn = <<>>
    /\ q_light = <<>>
    /\ q_voltage = <<>>
    /\ q_other = <<>>
    /\ out = <<>>
    /\ calls = 0

Init == InitConfig /\ InitLoop /\ InitRanger /\ InitBank

----------------------------------------------------------------------------
(* The link, owned by the network stack *)

\* the association completes
LinkUp ==
    /\ pc \notin {"start", "done"}
    /\ active /\ ~link
    /\ link' = TRUE
    /\ UNCHANGED <<cfgVars, rangerVars, bankVars, linkSeen, quiet, pc, active, wlanCalls, distance_sensors,
                   data, dataSrc, dataCycle, response, exc, ctr, cycles, stopCause>>

\* the association is lost
LinkDown ==
    /\ pc \notin {"start", "done"}
    /\ link
    /\ link' = FALSE
    /\ UNCHANGED <<cfgVars, rangerVars, bankVars, linkSeen, quiet, pc, active, wlanCalls, distance_sensors,
                   data, dataSrc, dataCycle, response, exc, ctr, cycles, stopCause>>

----------------------------------------------------------------------------
(* start() *)

\* an exception no handler of start() catches: start() ends with it
Uncaught(e, cause) ==
    /\ pc' = "done"
    /\ exc' = e
    /\ stopCause' = cause

\* lines 174-180: wlan.active(True); wlan.connect(...)
Activate ==
    /\ pc = "start"
    /\ active' = TRUE
    /\ wlanCalls' = wlanCalls \o <<"active(True)", "connect">>
    /\ pc' = "wait0"
    /\ UNCHANGED <<cfgVars, rangerVars, bankVars, linkSeen, quiet, link, distance_sensors, data, dataSrc, dataCycle,
                   response, exc, ctr, cycles, stopCause>>

\* WaitFirst going on without the link
WaitFirst_NoBlock ==
    /\ pc = "wait0"
    /\ pc' = "construct"
    /\ UNCHANGED <<cfgVars, rangerVars, bankVars, linkSeen, quiet, link, active, wlanCalls,
                   distance_sensors, data, dataSrc, dataCycle, response, exc, ctr,
                   cycles, stopCause>>

\* lines 183-184: the test of the while
WaitFirst ==
    /\ pc = "wait0"
    /\ IF link
       THEN pc' = "construct" /\ linkSeen' = TRUE
       ELSE pc' = "idle0" /\ linkSeen' = linkSeen
    /\ UNCHANGED <<cfgVars, rangerVars, bankVars, quiet, link, active, wlanCalls, distance_sensors,
                   data, dataSrc, dataCycle, response, exc, ctr, cycles, stopCause>>

\* line 184: machine.idle()
IdleFirst ==
    /\ pc = "idle0"
    /\ pc' = "wait0"
    /\ UNCHANGED <<cfgVars, rangerVars, bankVars, linkSeen, quiet, link, active, wlanCalls,
                   distance_sensors, data, dataSrc, dataCycle, response, exc, ctr,
                   cycles, stopCause>>

\* what list(dist_sensors.values()) can be: the dict iterates in hash-slot
\* order, which is fixed for a given configuration but need not be the
\* order of insertion
DictValues(d) == Orderings(d)

\* lines 188-190
Construct ==
    /\ pc = "construct"
    /\ distance_sensors' \in DictValues(dist_sensors)
    /\ ctr' = 0
    /\ pc' = "poll"
    /\ UNCHANGED <<cfgVars, rangerVars, bankVars, linkSeen, quiet, link, active, wlanCalls, data, dataSrc, dataCycle,
                   response, exc, cycles, stopCause>>

\* the rangers of distance_sensors[:2]
Polled == SubSeq(distance_sensors, 1, Min(RangerSlice, Len(distance_sensors)))

\* where each field of the record of lines 194-195 comes from
Sources ==
    <<[part |-> "id", k |-> 0]>>
        \o [i \in 1..Len(Polled) |-> [part |-> "ranger", k |-> Polled[i]]]
        \o [i \in 1..Len(LoopOrder) |-> [part |-> "bank", k |-> i]]

\* lines 192-196: one distance_mm() per polled ranger, then the bank; an
\* OSError of distance_mm is raised outside the inner try and the outer
\* try catches KeyboardInterrupt alone
Poll ==
    /\ pc = "poll"
    /\ cycles < MaxCycles
    /\ cycles' = cycles + 1
    /\ \E es \in [1..Len(Polled) -> LoopEchoes], chan \in ChanInputs :
        LET ms == [i \in 1..Len(Polled) |-> distance_mm(es[i])]
            failed == {i \in 1..Len(Polled) : ms[i].kind = "raise"}
        IN  IF failed # {}
            THEN /\ Uncaught(IF ms[MaxOf({-i : i \in failed}) * (-1)].msg = "Out of range"
                                THEN "OutOfRange" ELSE "OSError", "fault")
                 /\ UNCHANGED <<data, dataSrc, dataCycle>>
            ELSE /\ data' = <<bot_id>> \o [i \in 1..Len(Polled) |-> ms[i].v]
                                \o read_sensor_values(layout, LoopOrder, chan)
                 /\ dataSrc' = Sources
                 /\ dataCycle' = cycles + 1
                 /\ pc' = "report"
                 /\ UNCHANGED <<exc, stopCause>>
    /\ UNCHANGED <<cfgVars, rangerVars, bankVars, linkSeen, quiet, link, active, wlanCalls, distance_sensors,
                   response, ctr>>

\* lines 199-200, and 202-204 when the post is skipped
CheckLink ==
    /\ pc = "report"
    /\ response' = "None"
    /\ IF link
       THEN pc' = "post" /\ ctr' = ctr
       ELSE pc' = "parse" /\ ctr' = ctr + 1
    /\ UNCHANGED <<cfgVars, rangerVars, bankVars, linkSeen, quiet, link, active, wlanCalls, distance_sensors,
                   data, dataSrc, dataCycle, exc, cycles, stopCause>>

\* lines 201-204: the reply of the endpoint, or OSError; without the link
\* the post can only fail
Post ==
    /\ pc = "post"
    /\ quiet' = [quiet EXCEPT !.post = 0]
    /\ \/ /\ link
          /\ response' \in Replies
          /\ ctr' = ctr + 1
          /\ pc' = "parse"
          /\ exc' = exc
       \/ /\ exc' = "OSError"
          /\ pc' = "except"
          /\ UNCHANGED <<response, ctr>>
    /\ UNCHANGED <<cfgVars, rangerVars, bankVars, linkSeen, link, active, wlanCalls, distance_sensors,
                   data, dataSrc, dataCycle, cycles, stopCause>>

\* lines 205-210: response.json() and body["endLoop"]; the except clause of
\* line 211 names IndexError, KeyError and OSError
Parse ==
    /\ pc = "parse"
    /\ CASE response = "None" -> Uncaught("AttributeError", "fault")
         [] response = "malformed" -> Uncaught("ValueError", "fault")
         [] response = "no_endLoop" ->
                pc' = "except" /\ exc' = "KeyError" /\ stopCause' = stopCause
         [] response = "endLoop_true" ->
                pc' = "done" /\ exc' = exc /\ stopCause' = "endLoop"
         [] response = "endLoop_false" ->
                pc' = "sleep" /\ exc' = exc /\ stopCause' = stopCause
    /\ UNCHANGED <<cfgVars, rangerVars, bankVars, linkSeen, quiet, link, active, wlanCalls, distance_sensors,
                   data, dataSrc, dataCycle, response, ctr, cycles>>

\* HandleError without the test of line 214: every handled error reconnects
HandleError_AlwaysReconnect ==
    /\ pc = "except"
    /\ exc' = exc
    /\ active' = TRUE
    /\ wlanCalls' = wlanCalls \o <<"active(True)", "connect">>
    /\ linkSeen' = FALSE
    /\ quiet' = [quiet EXCEPT !.connect = 0]
    /\ pc' = "rewait"
    /\ UNCHANGED <<cfgVars, rangerVars, bankVars, link, distance_sensors, data, dataSrc, dataCycle,
                   response, ctr, cycles, stopCause>>

\* HandleError starting the next iteration at once when the link is up
HandleError_Continue ==
    /\ pc = "except"
    /\ exc' = exc
    /\ IF ~link
       THEN /\ active' = TRUE
            /\ wlanCalls' = wlanCalls \o <<"active(True)", "connect">>
            /\ linkSeen' = FALSE
            /\ quiet' = [quiet EXCEPT !.connect = 0]
            /\ pc' = "rewait"
       ELSE /\ pc' = "poll"
            /\ UNCHANGED <<active, wlanCalls, linkSeen, quiet>>
    /\ UNCHANGED <<cfgVars, rangerVars, bankVars, link, distance_sensors, data, dataSrc, dataCycle,
                   response, ctr, cycles, stopCause>>

\* lines 211-217
HandleError ==
    /\ pc = "except"
    /\ exc' = exc
    /\ IF ~link
       THEN /\ active' = TRUE
            /\ wlanCalls' = wlanCalls \o <<"active(True)", "connect">>
            /\ linkSeen' = FALSE
            /\ quiet' = [quiet EXCEPT !.connect = 0]
            /\ pc' = "rewait"
       ELSE /\ pc' = "sleep"
            /\ UNCHANGED <<active, wlanCalls, linkSeen, quiet>>
    /\ UNCHANGED <<cfgVars, rangerVars, bankVars, link, distance_sensors, data, dataSrc, dataCycle,
                   response, ctr, cycles, stopCause>>

\* lines 218-219: the test of the while
WaitAgain ==
    /\ pc = "rewait"
    /\ IF link
       THEN pc' = "sleep" /\ linkSeen' = TRUE
       ELSE pc' = "reidle" /\ linkSeen' = linkSeen
    /\ UNCHANGED <<cfgVars, rangerVars, bankVars, quiet, link, active, wlanCalls, distance_sensors,
                   data, dataSrc, dataCycle, response, exc, ctr, cycles, stopCause>>

\* line 219: machine.idle()
IdleAgain ==
    /\ pc = "reidle"
    /\ pc' = "rewait"
    /\ UNCHANGED <<cfgVars, rangerVars, bankVars, linkSeen, quiet, link, active, wlanCalls,
                   distance_sensors, data, dataSrc, dataCycle, response, exc, ctr,
                   cycles, stopCause>>

\* line 220: time.sleep(0.1)
Sleep ==
    /\ pc = "sleep"
    /\ pc' = "poll"
    /\ quiet' = [post |-> Min(quiet.post + PacingMs, PacingMs),
                 connect |-> Min(quiet.connect + PacingMs, PacingMs)]
    /\ UNCHANGED <<cfgVars, rangerVars, bankVars, linkSeen, link, active, wlanCalls, distance_sensors,
                   data, dataSrc, dataCycle, response, exc, ctr, cycles, stopCause>>

\* positions of start() enclosed by the try of line 187
InTry ==
    {"construct", "poll", "report", "post", "parse", "except", "rewait", "reidle",
     "sleep"}

\* the user interrupts: the handler of line 221 covers lines 188-220; the
\* wait of lines 183-184 is outside the try
KeyboardInterrupt ==
    /\ pc \in InTry \cup {"wait0", "idle0"}
    /\ IF pc \in InTry
       THEN pc' = "interrupted" /\ exc' = "KeyboardInterrupt" /\ stopCause' = stopCause
       ELSE Uncaught("KeyboardInterrupt", "interrupt")
    /\ UNCHANGED <<cfgVars, rangerVars, bankVars, linkSeen, quiet, link, active, wlanCalls, distance_sensors,
                   data, dataSrc, dataCycle, response, ctr, cycles>>

\* lines 221-224
Release ==
    /\ pc = "interrupted"
    /\ IF link
       THEN /\ wlanCalls' = wlanCalls \o <<"disconnect", "active(False)">>
            /\ link' = FALSE
            /\ active' = FALSE
       ELSE UNCHANGED <<wlanCalls, link, active>>
    /\ pc' = "done"
    /\ stopCause' = "interrupt"
    /\ UNCHANGED <<cfgVars, rangerVars, bankVars, linkSeen, quiet, distance_sensors, data, dataSrc, dataCycle, response,
                   exc, ctr, cycles>>

Next ==
    \/ Activate \/ WaitFirst \/ Construct \/ Poll \/ CheckLink \/ Post \/ Parse
    \/ HandleError \/ WaitAgain \/ Sleep \/ KeyboardInterrupt \/ Release
    \/ IdleFirst \/ IdleAgain
    \/ LinkUp \/ LinkDown

Spec == Init /\ [][Next]_vars

----------------------------------------------------------------------------
(* One HCSR04 under repeated distance_mm() calls *)

RangerStep(from, to) ==
    /\ rpc = from
    /\ rpc' = to
    /\ UNCHANGED <<cfgVars, loopVars, bankVars>>

\* an operation on the pins or the timer
Op(op, arg) == [op |-> op, arg |-> arg]

\* line 58: distance_mm() enters _send_pulse_and_wait()
RangerCall ==
    /\ RangerStep("idle", "l40")
    /\ rlog' = <<>>
    /\ UNCHANGED <<trigger, echo, result>>

\* line 40: self.trigger.value(0)
Stabilize ==
    /\ RangerStep("l40", "l41")
    /\ trigger' = 0
    /\ rlog' = Append(rlog, Op("trigger", 0))
    /\ UNCHANGED <<echo, result>>

\* line 41: time.sleep_us(5)
Settle ==
    /\ RangerStep("l41", "l42")
    /\ rlog' = Append(rlog, Op("sleep_us", 5))
    /\ UNCHANGED <<trigger, echo, result>>

\* line 42: self.trigger.value(1)
PulseHigh ==
    /\ RangerStep("l42", "l44")
    /\ trigger' = 1
    /\ rlog' = Append(rlog, Op("trigger", 1))
    /\ UNCHANGED <<echo, result>>

\* line 44: time.sleep_us(10)
PulseHold ==
    /\ RangerStep("l44", "l45")
    /\ rlog' = Append(rlog, Op("sleep_us", 10))
    /\ UNCHANGED <<trigger, echo, result>>

\* PulseLow left out: the trigger stays high
PulseLow_Skipped ==
    /\ RangerStep("l45", "l47")
    /\ UNCHANGED <<trigger, echo, result, rlog>>

\* line 45: self.trigger.value(0)
PulseLow ==
    /\ RangerStep("l45", "l47")
    /\ trigger' = 0
    /\ rlog' = Append(rlog, Op("trigger", 0))
    /\ UNCHANGED <<echo, result>>

\* line 47: machine.time_pulse_us(self.echo, 1, self.echo_timeout_us)
TimePulse ==
    /\ RangerStep("l47", "l48")
    /\ echo' \in time_pulse_us
    /\ rlog' = Append(rlog, Op("time_pulse_us", EchoTimeoutUs))
    /\ UNCHANGED <<trigger, result>>

\* lines 48-52 and 65-66: distance_mm() returns or raises
RangerReturn ==
    /\ RangerStep("l48", "idle")
    /\ result' = distance_mm(echo)
    /\ UNCHANGED <<trigger, echo, rlog>>

NextRanger ==
    \/ RangerCall \/ Stabilize \/ Settle \/ PulseHigh \/ PulseHold \/ PulseLow
    \/ TimePulse \/ RangerReturn

\* a configuration with one ranger; start() is not run
InitOneRanger ==
    /\ bot_id = 7
    /\ dist_sensors = <<1>>
    /\ layout = <<"v", "v", "l", "l", "_", "_", "_", "_">>

InitRangerOnly == InitOneRanger /\ InitLoop /\ InitRanger /\ InitBank

SpecRanger == InitRangerOnly /\ [][NextRanger]_vars

----------------------------------------------------------------------------
(* One AnalogReader under repeated read_sensor_values() calls *)

\* calls explored
MaxCalls == 2

\* layouts the reader is built with
BankLayouts ==
    { <<"v", "v", "l", "l", "_", "_", "_", "_">>,
      <<"v", "_", "_", "l", "_", "_", "l", "_">>,
      <<"l", "l", "l", "l", "v", "v", "v", "v">>,
      <<"_", "_", "_", "_", "_", "_", "_", "_">> }

\* output orders asked for: "vvll_", "lvlv", "vvvlll", "_________"
BankOrders ==
    { <<"v", "v", "l", "l", "_">>,
      <<"l", "v", "l", "v">>,
      <<"v", "v", "v", "l", "l", "l">>,
      <<"_", "_", "_", "_", "_", "_", "_", "_", "_">> }

\* raw register values: both sides of every light breakpoint
\* (335 + k * 30483 / 5) and of every voltage breakpoint
\* (5169 + k * 27067 / 5), the ends of the 16-bit range, 0 and 9580
RawSamples ==
    {334, 335, 6431, 6432, 12528, 12529, 18624, 18625, 24721, 24722, 30817, 30818}
        \cup {5168, 5169, 10582, 10583, 15995, 15996, 21409, 21410, 26822, 26823,
              32235, 32236}
        \cup {-32768, 0, 9580, 32767}

\* raw values that differ from channel to channel
Staggered == <<10583, 15996, 18625, 24722, 101, 102, 103, 104>>

\* what the 8 channels give in one call: any set of faulting channels, or no
\* fault with one raw value on the odd and one on the even channels
BankChans ==
    {[i \in 1..8 |-> IF i \in F THEN Fault ELSE Raw(Staggered[i])] : F \in SUBSET (1..8)}
        \cup {[i \in 1..8 |-> Raw(IF i % 2 = 1 THEN r1 ELSE r2)] :
                r1 \in RawSamples, r2 \in RawSamples}

\* NewQueue for lists kept on the reader instead of created by the call
NewQueue_Kept(prev) == prev

\* lines 92-94: light = [], voltage = [], other = []; prev is what the
\* previous call left in the list of that name
NewQueue(prev) == <<>>

\* number of tags of a role in an order
Asked(order, role) == Cardinality({p \in 1..Len(order) : Role(order[p]) = role})

\* a list after n pops of lines 126-128
Popped(q, n) == SubSeq(q, Min(n, Len(q)) + 1, Len(q))

\* lines 90-94
BankCall ==
    /\ bpc = "idle"
    /\ calls < MaxCalls
    /\ calls' = calls + 1
    /\ bankOrder' \in BankOrders
    /\ q_light' = NewQueue(q_light)
    /\ q_voltage' = NewQueue(q_voltage)
    /\ q_other' = NewQueue(q_other)
    /\ adcIn' = <<>>
    /\ out' = <<>>
    /\ bpc' = "read"
    /\ UNCHANGED <<cfgVars, loopVars, rangerVars>>

\* lines 114-122
BankReadChannels ==
    /\ bpc = "read"
    /\ \E c \in BankChans :
        /\ adcIn' = c
        /\ q_light' = q_light \o Queue(layout, c, "l", 1)
        /\ q_voltage' = q_voltage \o Queue(layout, c, "v", 1)
        /\ q_other' = q_other \o Queue(layout, c, "_", 1)
    /\ bpc' = "emit"
    /\ UNCHANGED <<cfgVars, loopVars, rangerVars, bankOrder, out, calls>>

\* lines 124-130
BankEmit ==
    /\ bpc = "emit"
    /\ out' = Emit(bankOrder, q_light, q_voltage, q_other)
    /\ q_light' = Popped(q_light, Asked(bankOrder, "l"))
    /\ q_voltage' = Popped(q_voltage, Asked(bankOrder, "v"))
    /\ q_other' = Popped(q_other, Asked(bankOrder, "_"))
    /\ bpc' = "idle"
    /\ UNCHANGED <<cfgVars, loopVars, rangerVars, bankOrder, adcIn, calls>>

NextBank == BankCall \/ BankReadChannels \/ BankEmit

\* a reader built with one of BankLayouts; start() is not run
InitOneBank ==
    /\ bot_id = 7
    /\ dist_sensors = <<>>
    /\ layout \in BankLayouts

InitBankOnly == InitOneBank /\ InitLoop /\ InitRanger /\ InitBank

SpecBank == InitBankOnly /\ [][NextBank]_vars

----------------------------------------------------------------------------
(* Properties *)

\* length of the Telemetry Record for the loaded configuration
RecordLen == 1 + Min(RangerSlice, Len(dist_sensors)) + Len(LoopOrder)

\* the record's fields when the rangers are taken in configuration order
ConfiguredSources ==
    <<[part |-> "id", k |-> 0]>>
        \o [i \in 1..Min(RangerSlice, Len(dist_sensors)) |->
                [part |-> "ranger", k |-> dist_sensors[i]]]
        \o [i \in 1..Len(LoopOrder) |-> [part |-> "bank", k |-> i]]

\* the calls that release the link
ReleaseCalls == SelectSeq(wlanCalls, LAMBDA c : c \in {"disconnect", "active(False)"})

\* start() moves on from position p, and not because of an interrupt
Leaves(p) == pc = p /\ pc' \notin {p, "interrupted"}

\* C1: a Poll step in which a ranger fails with OutOfRange still builds the
\* record and goes on to Reporting
C1_OutOfRangeDegrades ==
    [][(pc = "poll" /\ exc' = "OutOfRange")
         => (pc' = "report" /\ Len(data') = RecordLen)]_vars

\* C2: start() ends only on a reply with endLoop true or on a user interrupt
C2_StopsOnlyOnEndLoopOrInterrupt ==
    pc = "done" => stopCause \in {"endLoop", "interrupt"}

\* C3: when start() has ended on endLoop, disconnect() and then
\* activate(False) were each called exactly once
C3_EndLoopReleases ==
    (pc = "done" /\ stopCause = "endLoop")
        => ReleaseCalls = <<"disconnect", "active(False)">>

\* C4: when start() has ended on a user interrupt, disconnect() and then
\* activate(False) were each called exactly once, whatever the position and
\* the link state at the interrupt
C4_InterruptReleases ==
    (pc = "done" /\ stopCause = "interrupt")
        => ReleaseCalls = <<"disconnect", "active(False)">>

\* C5: an OSError of the post handled while the link is connected issues no
\* connect() and does not stop the loop; the loop goes through the pacing
\* delay to the next poll, and the record the next poll builds has the same
\* length as every record of this configuration
C5_TransientMiss ==
    [][/\ (Leaves("except") /\ exc = "OSError" /\ link)
            => (pc' = "sleep" /\ wlanCalls' = wlanCalls /\ stopCause' = "none")
       /\ Leaves("sleep") => pc' = "poll"
       /\ (pc = "poll" /\ pc' = "report")
            => (/\ Len(data') = RecordLen
                /\ data # <<>> => Len(data') = Len(data))]_vars

\* C5 witness: the record of the second cycle, after a first cycle whose post
\* failed with OSError and was handled without a reconnect
C5_Witness ==
    /\ pc = "report" /\ cycles = 2
    /\ exc = "OSError"
    /\ wlanCalls = <<"active(True)", "connect">>
    /\ Len(data) = RecordLen

\* C6: a link loss during Reporting, seen by the check before the post or by
\* a failing post, leads to Connecting (activate(True), connect(), wait for
\* the link), then to the pacing delay and a new poll; only a record built
\* in the current cycle is posted
C6_LinkLossReconnects ==
    [][/\ (Leaves("parse") /\ response = "None") => pc' = "except"
       /\ (Leaves("except") /\ ~link)
            => (/\ pc' = "rewait"
                /\ wlanCalls' = wlanCalls \o <<"active(True)", "connect">>)
       /\ Leaves("rewait") => ((link /\ pc' = "sleep") \/ (~link /\ pc' = "reidle"))
       /\ Leaves("reidle") => pc' = "rewait"
       /\ pc' = "post" => dataCycle' = cycles']_vars

\* C7: a reply that is not JSON, or that has no endLoop field, is handled
\* by the except clause and the loop continues
C7_BadReplyIsTransientMiss ==
    [][/\ (Leaves("parse") /\ response \in {"malformed", "no_endLoop"})
            => pc' = "except"
       /\ (Leaves("except") /\ exc \in {"ValueError", "KeyError"})
            => pc' \in {"sleep", "rewait"}]_vars

\* C8: every record built has RecordLen fields: the node identifier, the
\* readings of the first rangers in configuration order, the five bank
\* readings of "vvll_"
C8_RecordShape ==
    data # <<>> => (Len(data) = RecordLen /\ dataSrc = ConfiguredSources)

\* C9: distance_mm fails with OutOfRange exactly when the echo measurement
\* timed out, and any other fault of the measurement propagates unchanged
C9_OutOfRangeIffTimeout ==
    (rpc = "idle" /\ result # NoCall)
        => /\ (result = OutOfRange) <=> TimedOut(echo)
           /\ (echo.kind = "raise" /\ echo.v # ETIMEDOUT) => result = echo

\* C10: every distance distance_mm returns is pulse_us * 100 / 582 with
\* truncating division, and is not negative
C10_TruncatedNonNegative ==
    (rpc = "idle" /\ result.kind = "return")
        => /\ result.v = TruncDiv(echo.v * 100, 582)
           /\ result.v >= 0

----------------------------------------------------------------------------
(* Properties of read_sensor_values *)

\* the lists of lines 92-94 by role
QueueOf(role) ==
    IF role = "l" THEN q_light ELSE IF role = "v" THEN q_voltage ELSE q_other

\* channel i is the Rank-th channel of its role, channels counted from
\* device A channel 0 to device B channel 3
Rank(i) == Cardinality({j \in 1..i : Role(layout[j]) = Role(layout[i])})

\* number of channels of a role in the layout
Channels(role) == Cardinality({i \in 1..Len(layout) : Role(layout[i]) = role})

\* the k-th channel of a role
KthChannel(role, k) ==
    CHOOSE i \in 1..Len(layout) : Role(layout[i]) = role /\ Rank(i) = k

\* the p-th tag of the order is the Occurrence-th of its role
Occurrence(p) ==
    Cardinality({j \in 1..p : Role(bankOrder[j]) = Role(bankOrder[p])})

\* the bucket of a fraction num / den as the specification words it: the
\* label of the largest breakpoint k / 5 that is <= the fraction
ExpectedBucket(num, den) ==
    LET k == (5 * num) \div den
    IN  IF k <= 0 THEN 0
        ELSE IF k = 1 THEN 20
        ELSE IF k = 2 THEN 40
        ELSE IF k = 3 THEN 80
        ELSE IF k = 4 THEN 160
        ELSE 220

\* what a channel reads when it does not fault
Normal(i) ==
    IF Role(layout[i]) = "l" THEN ExpectedBucket(adcIn[i].raw - 335, 30483)
    ELSE IF Role(layout[i]) = "v" THEN ExpectedBucket(adcIn[i].raw - 5169, 27067)
    ELSE adcIn[i].raw

\* the reading of channel i or the sentinel
Expected(i) == IF adcIn[i].ok THEN Normal(i) ELSE -1

\* the lists are filled and nothing is popped yet
Filled == bpc = "emit"

\* the reading taken from channel i, when Filled
Reading(i) == QueueOf(Role(layout[i]))[Rank(i)]

\* a call has returned
BankReturned == bpc = "idle" /\ calls > 0

\* C11: whatever channels fault, all 8 channels are read, a faulting channel
\* reads -1 and every other channel reads its normal value
C11_FaultIsLocal ==
    Filled =>
        /\ Len(q_light) + Len(q_voltage) + Len(q_other) = 8
        /\ \A i \in 1..8 :
            /\ Rank(i) <= Len(QueueOf(Role(layout[i])))
            /\ Reading(i) = Expected(i)

\* C11 witness: channel 3, a light channel, is the only one to fault; it
\* reads -1 and the light channel 4 reads its bucket
C11_Witness ==
    /\ Filled
    /\ layout = <<"v", "v", "l", "l", "_", "_", "_", "_">>
    /\ {i \in 1..8 : ~adcIn[i].ok} = {3}
    /\ q_light = <<-1, 160>>
    /\ Len(q_voltage) = 2 /\ Len(q_other) = 4

\* C12: the k-th tag of a role in the order receives the reading of the k-th
\* channel of that role; layout "vvll____" with order "lvlv" gives
\* [light0, voltage0, light1, voltage1]
C12_RoleQueueOrder ==
    BankReturned =>
        /\ Len(out) = Len(bankOrder)
        /\ \A p \in 1..Len(bankOrder) :
            Occurrence(p) <= Channels(Role(bankOrder[p]))
                => out[p] = Expected(KthChannel(Role(bankOrder[p]), Occurrence(p)))
        /\ (/\ layout = <<"v", "v", "l", "l", "_", "_", "_", "_">>
            /\ bankOrder = <<"l", "v", "l", "v">>)
                => out = <<Expected(3), Expected(1), Expected(4), Expected(2)>>

\* C12 witness: "vvll____" read with four different readings and asked "lvlv"
C12_Witness ==
    /\ BankReturned
    /\ layout = <<"v", "v", "l", "l", "_", "_", "_", "_">>
    /\ bankOrder = <<"l", "v", "l", "v">>
    /\ out = <<80, 20, 160, 40>>

\* C13: the call returns one reading per tag of the order, and a tag beyond
\* the channels of its role yields 0.0
C13_LengthAndExhaustion ==
    BankReturned =>
        /\ Len(out) = Len(bankOrder)
        /\ \A p \in 1..Len(bankOrder) :
            Occurrence(p) > Channels(Role(bankOrder[p])) => out[p] = 0

\* C13 witness: "vvvlll" asked of "vvll____": the third voltage and the third
\* light are 0.0 and the others are readings
C13_Witness ==
    /\ BankReturned
    /\ layout = <<"v", "v", "l", "l", "_", "_", "_", "_">>
    /\ bankOrder = <<"v", "v", "v", "l", "l", "l">>
    /\ out = <<20, 40, 0, 80, 160, 0>>

\* C14: a light or voltage channel that does not fault reads the label of
\* the largest breakpoint <= its fraction, 0 below every breakpoint, so one
\* of 0, 20, 40, 80, 160, 220
C14_LargestBucket ==
    Filled =>
        \A i \in 1..8 :
            (adcIn[i].ok /\ Role(layout[i]) \in {"l", "v"})
                => /\ Reading(i) = Normal(i)
                   /\ Reading(i) \in {0, 20, 40, 80, 160, 220}

\* C14 witness: a light channel at fraction exactly 1.0 reads 220 and a
\* voltage channel just below its first breakpoint reads 0
C14_Witness ==
    /\ Filled
    /\ layout = <<"l", "l", "l", "l", "v", "v", "v", "v">>
    /\ adcIn[1] = Raw(30818) /\ Reading(1) = 220
    /\ adcIn[6] = Raw(5168) /\ Reading(6) = 0

\* a light channel that reads raw
LightAt(i, raw) == Role(layout[i]) = "l" /\ adcIn[i] = Raw(raw)

\* C15: a light channel gives 220 for raw 30818, 0 for raw 335 and 40 for
\* raw 9580
C15_LightExamples ==
    Filled =>
        \A i \in 1..8 :
            /\ LightAt(i, 30818) => Reading(i) = 220
            /\ LightAt(i, 335) => Reading(i) = 0
            /\ LightAt(i, 9580) => Reading(i) = 40

\* C15 as amended: a light channel gives 220 for raw 30818, 0 for raw 335
\* and 20 for raw 9580
C15_LightExamplesAmended ==
    Filled =>
        \A i \in 1..8 :
            /\ LightAt(i, 30818) => Reading(i) = 220
            /\ LightAt(i, 335) => Reading(i) = 0
            /\ LightAt(i, 9580) => Reading(i) = 20

\* C15 witness: light channels reading raw 9580 and raw 30818 in one call
C15_Witness ==
    /\ Filled
    /\ \E i, j \in 1..8 :
        /\ LightAt(i, 9580) /\ Reading(i) = 20
        /\ LightAt(j, 30818) /\ Reading(j) = 220

\* C16: of two channels of the same role, light or voltage, the one with the
\* smaller raw value does not read more than the other
C16_Monotone ==
    Filled =>
        \A i, j \in 1..8 :
            (/\ Role(layout[i]) = Role(layout[j])
             /\ Role(layout[i]) \in {"l", "v"}
             /\ adcIn[i].ok /\ adcIn[j].ok
             /\ adcIn[i].raw < adcIn[j].raw)
                => Reading(i) <= Reading(j)

\* C16 witness: two voltage channels either side of a breakpoint
C16_Witness ==
    /\ Filled
    /\ layout = <<"v", "v", "l", "l", "_", "_", "_", "_">>
    /\ adcIn[1] = Raw(10582) /\ adcIn[2] = Raw(10583)
    /\ Reading(1) = 0 /\ Reading(2) = 20

\* C20: the three lists are empty when a call starts reading, the layout
\* never changes, and what a call returns is determined by the layout, the
\* order and the channel inputs of that call alone, so nothing a previous
\* call left unrequested shows in it
C20_NoStateBetweenCalls ==
    /\ [](bpc = "read" => (q_light = <<>> /\ q_voltage = <<>> /\ q_other = <<>>))
    /\ [](BankReturned => out = read_sensor_values(layout, bankOrder, adcIn))
    /\ [][layout' = layout]_vars

\* C20 witness: a second call of "vvll_" on "vvll____" returns the first
\* generic channel and leaves the three others unrequested
C20_Witness ==
    /\ BankReturned /\ calls = 2
    /\ layout = <<"v", "v", "l", "l", "_", "_", "_", "_">>
    /\ bankOrder = <<"v", "v", "l", "l", "_">>
    /\ out = <<20, 40, 80, 160, 101>>
    /\ q_other = <<102, 103, 104>>

----------------------------------------------------------------------------
(* Properties of HCSR04 *)

\* the operations of one measurement, in order
Protocol ==
    <<Op("trigger", 0), Op("sleep_us", 5), Op("trigger", 1), Op("sleep_us", 10),
      Op("trigger", 0), Op("time_pulse_us", EchoTimeoutUs)>>

\* C18: a distance_mm() call drives the trigger low, waits 5 us, drives it
\* high, waits 10 us, drives it low and measures the echo once with the
\* configured timeout, and does nothing else; the trigger is low when the
\* call ends, whether it returns or raises
C18_OnePulsePerCall ==
    /\ Len(rlog) <= Len(Protocol)
    /\ rlog = SubSeq(Protocol, 1, Len(rlog))
    /\ (rpc = "idle" /\ result # NoCall) => (rlog = Protocol /\ trigger = 0)

\* C18 witness: a call that ended with OutOfRange after one pulse and one
\* echo measurement
C18_Witness ==
    /\ rpc = "idle"
    /\ result = OutOfRange
    /\ rlog = Protocol
    /\ trigger = 0

\* ---------------------------------------------------------------------
\* Properties of the waits and of the pacing of start()

\* the control leaves position p other than by an exception
Passes(p) == pc = p /\ pc' \notin {p, "interrupted", "done"}

\* the loop calls connect() again (lines 214-217)
Reconnects == pc = "except" /\ pc' = "rewait"

\* C17: every cycle that goes on ends with the pacing delay: a post is made
\* only with a full pacing delay of 100 ms since the post before it, the loop
\* reconnects only with a full pacing delay since its reconnect before, and
\* a later iteration is entered from the pacing delay only.
C17_PacedCycles ==
    [][ /\ Passes("post") => quiet.post >= PacingMs
        /\ Reconnects => quiet.connect >= PacingMs
        /\ (pc' = "poll" /\ pc # "poll") => pc \in {"construct", "sleep"}
      ]_vars

\* the second cycle has posted and reconnects for the second time
C17_Witness ==
    /\ pc = "rewait"
    /\ cycles = 2
    /\ ctr = 2
    /\ quiet = [post |-> 0, connect |-> 0]
    /\ Len(wlanCalls) = 6

\* C19: the readings of a cycle and its post are made only after
\* isconnected() has returned True since the last connect(); a wait that
\* finds the link down calls machine.idle(), and machine.idle() leads back to
\* the test of the link, at startup and at reconnection.
C19_ConnectBlocks ==
    [][ /\ (Passes("poll") \/ Passes("post")) => linkSeen
        /\ Passes("construct") => linkSeen
        /\ Passes("wait0") => ((link /\ pc' = "construct") \/ (~link /\ pc' = "idle0"))
        /\ Passes("idle0") => pc' = "wait0"
        /\ Passes("rewait") => ((link /\ pc' = "sleep") \/ (~link /\ pc' = "reidle"))
        /\ Passes("reidle") => pc' = "rewait"
      ]_vars

\* a cycle has read its sensors after the wait of a reconnection
C19_Witness ==
    /\ pc = "report"
    /\ cycles = 2
    /\ linkSeen
    /\ Len(wlanCalls) = 4

====
